---- MODULE Spec2Model ----
(***************************************************************************)
(* Model of three views of the field-sales application:                    *)
(*   ProductInsert                  the entry form with the debounced      *)
(*                                  customer search                        *)
(*   ProductInsertReporting         the filtered, paginated insert report  *)
(*   CompetitorPriceAnalysisReport  the filtered, paginated analysis       *)
(*                                  report with the two-stage lookup       *)
(* Exactly one view is mounted in a behaviour (variable view); the others  *)
(* keep their constructed state.  Text is a sequence of one-character      *)
(* strings, so that lower-casing and substring matching are computed.      *)
(***************************************************************************)
EXTENDS Integers, Sequences, FiniteSets, TLC

VARIABLES
    view,                    \* which component the router has mounted
    mounted,                 \* the component's mount effects have run
    tornDown,                \* the router has unmounted the component
    pagePermissions,         \* permissions[<page name>] of the app context
    loadBudget,              \* number of loads a report view may start in the behaviour
    timerBudget,             \* number of timers the search may set in the behaviour
    saveBudget,              \* number of clicks on the save button in the behaviour
    consoleErrors,           \* console.error calls so far
    notifications,           \* showNotification calls so far, in order
    \* ---- ProductInsert (src/unnamed/part_001) ----
    customerId,              \* useState<string>('')
    customerSearch,          \* useState('')
    filteredCustomers,       \* useState<Customer[]>([]), as a set of customer ids
    isCustomerDropdownOpen,  \* useState(false)
    debounceTimeout,         \* useRef: id of the last timer set, 0 for null
    timers,                  \* pending setTimeout callbacks: [id, q]
    searches,                \* customer queries awaiting their response: [id, q]
    searchLog,               \* history: what the search did (see SearchLogInit)
    form,                    \* productName, insertPrice, startDate, endDate, photoFiles
    isSaving,                \* useState(false)
    saves,                   \* handleSave calls awaiting a response
    saveLog,                 \* history of the saves (see SaveLogInit)
    \* ---- ProductInsertReporting (src/views/admin/ProductInsertReporting.tsx) ----
    pir,                     \* the component's useState values, by name
    pirLoads,                \* fetchInserts calls awaiting their response
    pirInitial,              \* fetchInitialData awaiting its response
    pirLog,                  \* history of the loads (see LoadLogInit)
    \* ---- CompetitorPriceAnalysisReport (src/views/admin/CompetitorPriceAnalysisReport.tsx) ----
    cpa,                     \* the component's useState values, by name
    cpaLoads,                \* fetchReports calls awaiting a response
    cpaDropdown,             \* fetchDropdownData awaiting its responses
    cpaLog                   \* history of the loads (see LoadLogInit)

formVars == <<form, isSaving, saves, saveLog>>

piVars == <<customerId, customerSearch, filteredCustomers, isCustomerDropdownOpen,
            debounceTimeout, timers, searches, searchLog, consoleErrors, formVars>>

pirVars == <<pir, pirLoads, pirInitial, pirLog>>

appVars == <<view, tornDown, pagePermissions, loadBudget, timerBudget, saveBudget>>

cpaVars == <<cpa, cpaLoads, cpaDropdown, cpaLog>>

vars == <<view, mounted, tornDown, pagePermissions, loadBudget, timerBudget, saveBudget, notifications,
          piVars, pirVars, cpaVars>>

\* ------------------------------------------------------------------ bounds

\* Number of timers the search may set in one behaviour.
MaxTimers == 3

\* Number of search requests that may fail in one behaviour.
MaxSearchFailures == 1

\* Number of timers the search may set in a behaviour in which the form is saved.
MaxSaveTimers == 1

\* Number of clicks on the save button in one behaviour.
MaxSaves == 2

\* Number of timers the search may set in one behaviour of SpecSaveEdited.
MaxEditTimers == 2

\* Number of loads a report view may start in one behaviour.
MaxLoads == 3

\* Number of loads the insert report may start in one behaviour of SpecNavigation.
MaxNavigationLoads == 5

\* Number of loads of a report view that may be in flight at once.
MaxInFlight == 2

\* Number of remote calls of a report view, or of the saves, that may fail in one
\* behaviour.
MaxFailures == 1

\* Rows of the product_inserts table.
NumInserts == 13

\* Rows of the competitor_price_analysis table.
NumAnalyses == 12

\* Instants in a day (the resolution of analysis_date).
TicksPerDay == 4

\* ------------------------------------------------------------------ app context

\* showNotification(message, type) of the app context: the notification is added
\* to those shown.  The context keeps the identity of showNotification and of
\* permissions, so that showing a notification re-runs no effect of a component.
ShowNotification(ns, message) == Append(ns, message)

\* Mutant of SetState: the update is applied whether or not the component is
\* mounted.
SetStateAlways(old, new) == new

\* A state setter of a component, called with the value new while the state is
\* old: React drops the update once the component is unmounted.
SetState(old, new) == IF mounted THEN new ELSE old

\* ------------------------------------------------------------------ text

Min(a, b) == IF a < b THEN a ELSE b

\* String.prototype.toLowerCase on one character of the model's alphabet.
LowerChar(c) == CASE c = "A" -> "a" [] c = "B" -> "b" [] OTHER -> c

\* customerSearch.toLowerCase()
ToLowerCase(s) == [i \in 1..Len(s) |-> LowerChar(s[i])]

\* text ILIKE pattern: case-insensitive, % matches any run, _ any one character.
RECURSIVE Ilike(_, _)
Ilike(s, p) ==
    IF p = <<>> THEN s = <<>>
    ELSE IF Head(p) = "%"
         THEN Ilike(s, Tail(p)) \/ (s # <<>> /\ Ilike(Tail(s), p))
    ELSE IF Head(p) = "_"
         THEN s # <<>> /\ Ilike(Tail(s), Tail(p))
    ELSE s # <<>> /\ LowerChar(Head(s)) = LowerChar(Head(p)) /\ Ilike(Tail(s), Tail(p))

\* ''  (an unset date input)
NoDate == 0

\* ------------------------------------------------------------------ customers table

Customers == {"c1", "c2"}

CustomerName(c) ==
    IF c = "c1" THEN <<"A", "b">> ELSE <<"b", "a">>

CustomerCode(c) ==
    IF c = "c1" THEN <<"x">> ELSE <<"a">>

\* What the user types into the search box.
TypedTexts == {<<>>, <<"a">>, <<"A", "b">>, <<"b">>, <<"x">>}

\* What the user types in the behaviours of SpecPattern: LIKE pattern characters.
PatternTexts == {<<>>, <<"a">>, <<"_">>, <<"%">>}

\* .limit(10)
SearchLimit == 10

\* .or(`name.ilike.%q%,customer_code.ilike.%q%`): the rows the filter keeps.
SearchMatches(q) ==
    LET pattern == <<"%">> \o q \o <<"%">>
    IN  {c \in Customers : Ilike(CustomerName(c), pattern) \/ Ilike(CustomerCode(c), pattern)}

\* The possible data of a successful response: any SearchLimit of the matching
\* rows (the query states no order).
SearchResults(q) ==
    LET m == SearchMatches(q)
    IN  {d \in SUBSET m : Cardinality(d) = Min(Cardinality(m), SearchLimit)}

\* ------------------------------------------------------------------ ProductInsert

\* History of the search, read by the properties only:
\*   nextId      the id the next timer gets
\*   superseded  ids of timers that were pending when the input changed again
\*   requests    the requests issued so far, in order: [id, q]
\*   lastOk      id of the last issued request, once it has answered with data;
\*               0 again when the input is emptied
\*   failed      number of requests that answered with an error
\*   chosen      a candidate has been chosen
SearchLogInit ==
    [nextId |-> 1, superseded |-> {}, requests |-> <<>>, lastOk |-> 0, failed |-> 0,
     chosen |-> FALSE]

\* Mutant of ClearTimeout: the pending timer is left running.
ClearTimeoutOmitted(ts, ref) == ts

\* clearTimeout(debounceTimeout.current)
ClearTimeout(ts, ref) == {t \in ts : t.id # ref}

\* Mutant of CleanupTimers: the effect returns no cleanup.
CleanupTimersOmitted(ts, ref) == ts

\* The cleanup the effect returns:
\* if (debounceTimeout.current) clearTimeout(debounceTimeout.current)
CleanupTimers(ts, ref) == ClearTimeout(ts, ref)

\* The timers after the effect on [customerSearch] has run for the value v: the
\* cleanup of the previous run and the body both clear the last timer, and a
\* non-empty v sets a new one with id n.
EffectTimers(ts, ref, v, n) ==
    LET cleared == ClearTimeout(CleanupTimers(ts, ref), ref)
    IN  IF v # <<>> THEN cleared \cup {[id |-> n, q |-> v]} ELSE cleared

\* Mutant of EffectFiltered: the else branch that empties the list is missing.
EffectFilteredKept(fc, v) == fc

\* filteredCustomers after the effect has run for the value v.
EffectFiltered(fc, v) == IF v # <<>> THEN fc ELSE {}

\* The effect on [customerSearch], run after a render in which customerSearch
\* became v.
EffectState(v) ==
    /\ timers' = EffectTimers(timers, debounceTimeout, v, searchLog.nextId)
    /\ debounceTimeout' = IF v # <<>> THEN searchLog.nextId ELSE debounceTimeout
    /\ filteredCustomers' = EffectFiltered(filteredCustomers, v)

\* The history after that run of the effect.
EffectLog(v) ==
    [searchLog EXCEPT !.nextId = IF v # <<>> THEN @ + 1 ELSE @,
                      !.superseded = @ \cup {t.id : t \in timers},
                      !.lastOk = IF v # <<>> THEN @ ELSE 0]

SearchEffect(v) == EffectState(v) /\ searchLog' = EffectLog(v)

\* Mount of ProductInsert: the effect runs for the initial, empty customerSearch.
MountProductInsert ==
    /\ view = "ProductInsert" /\ ~mounted /\ ~tornDown
    /\ mounted' = TRUE
    /\ SearchEffect(customerSearch)
    /\ UNCHANGED <<appVars, notifications, customerId, customerSearch,
                   isCustomerDropdownOpen, searches, consoleErrors, formVars, pirVars, cpaVars>>

\* Mutant of IdAfterChange: the identifier survives the emptied input.
IdAfterChangeKept(id, v) == id

\* if(!e.target.value) setCustomerId('')
IdAfterChange(id, v) == IF v = <<>> THEN "" ELSE id

\* <input onChange>: the user edits the search text to v.
OnSearchChange(v) ==
    /\ view = "ProductInsert" /\ mounted /\ pagePermissions.can_view
    /\ v # customerSearch
    /\ v # <<>> => searchLog.nextId <= timerBudget
    /\ customerSearch' = v
    /\ isCustomerDropdownOpen' = TRUE
    /\ customerId' = IdAfterChange(customerId, v)
    /\ SearchEffect(v)
    /\ UNCHANGED <<appVars, mounted, notifications, searches, consoleErrors, formVars, pirVars, cpaVars>>

\* <input onFocus>
OnSearchFocus ==
    /\ view = "ProductInsert" /\ mounted /\ pagePermissions.can_view
    /\ ~isCustomerDropdownOpen
    /\ isCustomerDropdownOpen' = TRUE
    /\ UNCHANGED <<appVars, mounted, notifications, customerId, customerSearch,
                   filteredCustomers, debounceTimeout, timers, searches, searchLog,
                   consoleErrors, formVars, pirVars, cpaVars>>

\* The candidate list is rendered.
CandidateListShown == isCustomerDropdownOpen /\ filteredCustomers # {}

\* Mutant of SelectedText: the input gets the customer's code.
SelectedTextCode(c) == CustomerCode(c)

\* setCustomerSearch(customer.name)
SelectedText(c) == CustomerName(c)

\* handleSelectCustomer: a click on a row of the open candidate list.
HandleSelectCustomer(c) ==
    /\ view = "ProductInsert" /\ mounted /\ pagePermissions.can_view
    /\ CandidateListShown
    /\ c \in filteredCustomers
    /\ SelectedText(c) # customerSearch => searchLog.nextId <= timerBudget
    /\ customerId' = c
    /\ customerSearch' = SelectedText(c)
    /\ isCustomerDropdownOpen' = FALSE
    /\ IF SelectedText(c) # customerSearch
       THEN /\ EffectState(SelectedText(c))
            /\ searchLog' = [EffectLog(SelectedText(c)) EXCEPT !.chosen = TRUE]
       ELSE /\ searchLog' = [searchLog EXCEPT !.chosen = TRUE]
            /\ UNCHANGED <<timers, debounceTimeout, filteredCustomers>>
    /\ UNCHANGED <<appVars, mounted, notifications, searches, consoleErrors, formVars, pirVars, cpaVars>>

\* The quiet period of timer t has elapsed: its callback issues the query.
TimerFires(t) ==
    /\ view = "ProductInsert"
    /\ t \in timers
    /\ timers' = timers \ {t}
    /\ searches' = searches \cup {[id |-> t.id, q |-> ToLowerCase(t.q)]}
    /\ searchLog' = [searchLog EXCEPT
                       !.requests = Append(@, [id |-> t.id, q |-> ToLowerCase(t.q)])]
    /\ UNCHANGED <<appVars, mounted, notifications, customerId, customerSearch,
                   filteredCustomers, isCustomerDropdownOpen, debounceTimeout,
                   consoleErrors, formVars, pirVars, cpaVars>>

\* filteredCustomers after the response of request r: data on success.
SearchApplied(fc, r, data) == SetState(fc, data)

\* The query of request r answers with data.
SearchReturns(r, data) ==
    /\ view = "ProductInsert"
    /\ r \in searches
    /\ searches' = searches \ {r}
    /\ filteredCustomers' = SearchApplied(filteredCustomers, r, data)
    /\ searchLog' = [searchLog EXCEPT
                       !.lastOk = IF /\ mounted
                                     /\ r.id = searchLog.requests[Len(searchLog.requests)].id
                                  THEN r.id ELSE @]
    /\ UNCHANGED <<appVars, mounted, notifications, customerId, customerSearch,
                   isCustomerDropdownOpen, debounceTimeout, timers, consoleErrors,
                   formVars, pirVars, cpaVars>>

\* Search requests fail in the behaviours that save nothing.
SearchFailureBudget == IF saveBudget = 0 THEN MaxSearchFailures ELSE 0

\* Mutant of SearchFailed: the error branch empties the list.
SearchFailedClears(fc) == {}

\* filteredCustomers after the response of a request with an error: the error
\* branch does not call setFilteredCustomers.
SearchFailed(fc) == fc

\* Mutant of SearchesAfterError: the failed query is issued again.
SearchesAfterErrorRetried(ss, r) == ss

\* The queries awaiting a response after the error branch has run for r: the
\* callback ends, it issues nothing.
SearchesAfterError(ss, r) == ss \ {r}

\* The query of request r answers with an error: console.error, nothing else.
SearchFails(r) ==
    /\ view = "ProductInsert"
    /\ r \in searches
    /\ searchLog.failed < SearchFailureBudget
    /\ searches' = SearchesAfterError(searches, r)
    /\ consoleErrors' = consoleErrors + 1
    /\ filteredCustomers' = SearchFailed(filteredCustomers)
    /\ searchLog' = [searchLog EXCEPT !.failed = @ + 1]
    /\ UNCHANGED <<appVars, mounted, notifications, customerId, customerSearch,
                   isCustomerDropdownOpen, debounceTimeout, timers, formVars, pirVars, cpaVars>>

\* The router unmounts ProductInsert: the cleanup of the effect runs.  Timers,
\* requests and saves of the component go on; the user has nothing to act on.
UnmountProductInsert ==
    /\ view = "ProductInsert" /\ mounted
    /\ mounted' = FALSE
    /\ tornDown' = TRUE
    /\ timers' = CleanupTimers(timers, debounceTimeout)
    /\ UNCHANGED <<view, pagePermissions, loadBudget, timerBudget, saveBudget,
                   notifications, customerId, customerSearch, filteredCustomers,
                   isCustomerDropdownOpen, debounceTimeout, searches, searchLog,
                   consoleErrors, formVars, pirVars, cpaVars>>

\* ------------------------------------------------------------------ ProductInsert: the form

\* What the user enters into the form.  A price is <<>> for '' and <<n>> for the
\* number n; a date is NoDate for '' and a day number otherwise; the photos are
\* their number (ImageUpload maxFiles={2}).
ProductNames == {"", "n"}

Prices == {<<>>, <<0>>}

FormStartDates == {NoDate, 2}

FormEndDates == {NoDate, 1, 2}

PhotoCounts == {0, 2}

\* The form state after construction and after a successful save.
EmptyForm ==
    [productName |-> "", insertPrice |-> <<>>, startDate |-> NoDate, endDate |-> NoDate,
     photoFiles |-> 0]

\* History of the saves, read by the properties only:
\*   nextId    the id the next save gets
\*   clicks    clicks on the save button so far
\*   failures  remote calls of the saves that answered with an error
\*   failedAt  the stage of the last save that ended in the catch block
\*   inserted  the rows inserted into product_inserts, in order
SaveLogInit ==
    [nextId |-> 1, clicks |-> 0, failures |-> 0, failedAt |-> "none", inserted |-> <<>>]

PiUsable == view = "ProductInsert" /\ mounted /\ pagePermissions.can_view

\* The user may still click save in this behaviour, so the form is worth editing.
MaySave == saveLog.clicks < saveBudget

PiFormOthers ==
    <<appVars, mounted, notifications, customerId, customerSearch, filteredCustomers,
      isCustomerDropdownOpen, debounceTimeout, timers, searches, searchLog,
      consoleErrors, isSaving, saves, saveLog, pirVars, cpaVars>>

\* product name input onChange
SetProductName(v) ==
    /\ PiUsable /\ MaySave
    /\ v # form.productName
    /\ form' = [form EXCEPT !.productName = v]
    /\ UNCHANGED PiFormOthers

\* price input onChange: '' stays '', any other text is parsed as a number
SetInsertPrice(v) ==
    /\ PiUsable /\ MaySave
    /\ v # form.insertPrice
    /\ form' = [form EXCEPT !.insertPrice = v]
    /\ UNCHANGED PiFormOthers

\* start date input onChange
SetStartDate(d) ==
    /\ PiUsable /\ MaySave
    /\ d # form.startDate
    /\ form' = [form EXCEPT !.startDate = d]
    /\ UNCHANGED PiFormOthers

\* end date input onChange
SetEndDate(d) ==
    /\ PiUsable /\ MaySave
    /\ d # form.endDate
    /\ form' = [form EXCEPT !.endDate = d]
    /\ UNCHANGED PiFormOthers

\* <ImageUpload onChange={setPhotoFiles}>
SetPhotoFiles(n) ==
    /\ PiUsable /\ MaySave
    /\ n # form.photoFiles
    /\ form' = [form EXCEPT !.photoFiles = n]
    /\ UNCHANGED PiFormOthers

\* The save button is rendered.
SaveButtonShown == pagePermissions.can_create

\* Mutant of SaveDisabled: the button stays enabled while a save is in flight.
SaveNeverDisabled == FALSE

\* disabled={isSaving}
SaveDisabled == isSaving

\* !customerId || !productName || insertPrice === '' || !startDate || !endDate
FieldsMissing(cid, f) ==
    \/ cid = ""
    \/ f.productName = ""
    \/ f.insertPrice = <<>>
    \/ f.startDate = NoDate
    \/ f.endDate = NoDate

\* Mutant of DateError: the dates are not compared.
DateErrorIgnored(f) == FALSE

\* new Date(startDate) > new Date(endDate)
DateError(f) == f.startDate > f.endDate

\* The object handed to insert(), without the photo urls and the author.
SaveRow(cid, f) ==
    [customer_id |-> cid, product_name |-> f.productName,
     insert_price |-> f.insertPrice[1], start_date |-> f.startDate,
     end_date |-> f.endDate, photos |-> f.photoFiles]

\* handleSave up to its first await: a click on the save button.
HandleSave ==
    /\ PiUsable /\ MaySave
    /\ SaveButtonShown /\ ~SaveDisabled
    /\ IF ~pagePermissions.can_create
       THEN /\ saveLog' = [saveLog EXCEPT !.clicks = @ + 1]
            /\ UNCHANGED <<notifications, isSaving, saves>>
       ELSE IF FieldsMissing(customerId, form)
       THEN /\ notifications' = ShowNotification(notifications,
                                     "productInsert.validation.fieldsRequired")
            /\ saveLog' = [saveLog EXCEPT !.clicks = @ + 1]
            /\ UNCHANGED <<isSaving, saves>>
       ELSE IF DateError(form)
       THEN /\ notifications' = ShowNotification(notifications,
                                     "productDisplay.validation.dateError")
            /\ saveLog' = [saveLog EXCEPT !.clicks = @ + 1]
            /\ UNCHANGED <<isSaving, saves>>
       ELSE /\ isSaving' = TRUE
            /\ saves' = saves \cup
                  {[id |-> saveLog.nextId,
                    stage |-> IF form.photoFiles > 0 THEN "upload" ELSE "insert",
                    pending |-> form.photoFiles,
                    row |-> SaveRow(customerId, form)]}
            /\ saveLog' = [saveLog EXCEPT !.clicks = @ + 1, !.nextId = @ + 1]
            /\ UNCHANGED notifications
    /\ UNCHANGED <<appVars, mounted, customerId, customerSearch, filteredCustomers,
                   isCustomerDropdownOpen, debounceTimeout, timers, searches, searchLog,
                   consoleErrors, form, pirVars, cpaVars>>

\* One upload of the save u answers without error; after the last one
\* Promise.all resolves and the row insert is issued.
UploadReturns(u) ==
    /\ view = "ProductInsert" /\ u \in saves /\ u.stage = "upload"
    /\ saves' = (saves \ {u}) \cup
          {IF u.pending = 1 THEN [u EXCEPT !.pending = 0, !.stage = "insert"]
                            ELSE [u EXCEPT !.pending = @ - 1]}
    /\ UNCHANGED <<appVars, mounted, notifications, customerId, customerSearch,
                   filteredCustomers, isCustomerDropdownOpen, debounceTimeout, timers,
                   searches, searchLog, consoleErrors, form, isSaving, saveLog,
                   pirVars, cpaVars>>

\* Mutant of FormAfterSave: the photo list is not reset.
FormAfterSaveKeepsPhotos(f) == SetState(f, [EmptyForm EXCEPT !.photoFiles = f.photoFiles])

\* The form after a save without error: setProductName(''), setInsertPrice(''),
\* setStartDate(''), setEndDate(''), setPhotoFiles([]).
FormAfterSave(f) == SetState(f, EmptyForm)

\* Mutant of IsSavingAfterSave: the flag is cleared after the try block only.
IsSavingAfterSaveOnSuccess(b, ok) == IF ok THEN SetState(b, FALSE) ELSE b

\* isSaving after the save has ended, with or without error: finally.
IsSavingAfterSave(b, ok) == SetState(b, FALSE)

\* The save u ends in the catch block: notification, then finally.
SaveFails(u) ==
    /\ saveLog.failures < MaxFailures
    /\ saves' = saves \ {u}
    /\ notifications' = ShowNotification(notifications, "productInsert.saveError")
    /\ isSaving' = IsSavingAfterSave(isSaving, FALSE)
    /\ saveLog' = [saveLog EXCEPT !.failures = @ + 1, !.failedAt = u.stage]
    /\ UNCHANGED <<appVars, mounted, customerId, customerSearch, filteredCustomers,
                   isCustomerDropdownOpen, debounceTimeout, timers, searches, searchLog,
                   consoleErrors, form, pirVars, cpaVars>>

\* Mutant of UploadFails: the error of the upload is not thrown, the row insert is
\* issued after the notification.
UploadFailsInserts(u) ==
    /\ view = "ProductInsert" /\ u \in saves /\ u.stage = "upload"
    /\ saveLog.failures < MaxFailures
    /\ saves' = (saves \ {u}) \cup {[u EXCEPT !.pending = 0, !.stage = "insert"]}
    /\ notifications' = ShowNotification(notifications, "productInsert.saveError")
    /\ saveLog' = [saveLog EXCEPT !.failures = @ + 1, !.failedAt = u.stage]
    /\ UNCHANGED <<appVars, mounted, customerId, customerSearch, filteredCustomers,
                   isCustomerDropdownOpen, debounceTimeout, timers, searches, searchLog,
                   consoleErrors, form, isSaving, pirVars, cpaVars>>

\* An upload of the save u answers with an error: the callback throws and
\* Promise.all rejects, whatever the other uploads do.
UploadFails(u) ==
    /\ view = "ProductInsert" /\ u \in saves /\ u.stage = "upload"
    /\ SaveFails(u)

\* The row insert of the save u answers without error: notification, the form
\* is reset (the effect on [customerSearch] runs if the text was not empty), then
\* finally.
InsertReturns(u) ==
    /\ view = "ProductInsert" /\ u \in saves /\ u.stage = "insert"
    /\ saves' = saves \ {u}
    /\ notifications' = ShowNotification(notifications, "productInsert.saveSuccess")
    /\ customerId' = SetState(customerId, "")
    /\ customerSearch' = SetState(customerSearch, <<>>)
    /\ form' = FormAfterSave(form)
    /\ saveLog' = [saveLog EXCEPT !.inserted = Append(@, u.row)]
    /\ IF mounted /\ customerSearch # <<>>
       THEN SearchEffect(<<>>)
       ELSE UNCHANGED <<timers, debounceTimeout, filteredCustomers, searchLog>>
    /\ isSaving' = IsSavingAfterSave(isSaving, TRUE)
    /\ UNCHANGED <<appVars, mounted, isCustomerDropdownOpen, searches, consoleErrors,
                   pirVars, cpaVars>>

\* The row insert of the save u answers with an error.
InsertFails(u) ==
    /\ view = "ProductInsert" /\ u \in saves /\ u.stage = "insert"
    /\ SaveFails(u)

\* ------------------------------------------------------------------ remote query backend

\* The dates the user picks in a date input.
DateInputs == {1, 2}

CeilDiv(a, b) == (a + b - 1) \div b

\* One filter of a query on one row: .gte / .lte / .eq / .in
Satisfies(row, f) ==
    CASE f.op = "gte" -> row[f.field] >= f.value
      [] f.op = "lte" -> row[f.field] <= f.value
      [] f.op = "eq"  -> row[f.field] = f.value
      [] f.op = "in"  -> row[f.field] \in f.value

\* The rows a query keeps: every filter applies (filters is a sequence).
Matching(rows, filters) ==
    {r \in rows : \A i \in 1..Len(filters) : Satisfies(r, filters[i])}

\* .order(field, { ascending: false }) over rows whose field values differ.
OrderDesc(rows, field) ==
    [k \in 1..Cardinality(rows) |->
        CHOOSE r \in rows : Cardinality({x \in rows : x[field] > r[field]}) = k - 1]

\* Mutant of Range: the upper index is taken as exclusive.
RangeUpperExclusive(ordered, from, to) ==
    LET last == Min(to, Len(ordered))
    IN  IF from + 1 > last THEN <<>>
        ELSE [k \in 1..(last - from) |-> ordered[from + k].id]

\* .range(from, to) of an ordered result, as the ids of its rows.
Range(ordered, from, to) ==
    LET last == Min(to + 1, Len(ordered))
    IN  IF from + 1 > last THEN <<>>
        ELSE [k \in 1..(last - from) |-> ordered[from + k].id]

\* History of a report view's loads, read by the properties only:
\*   nextId     the id the next load gets
\*   lastOk     the most recently started load has succeeded
\*   counted    some load has stored totalCount; countFacets: the facets of the
\*              load that stored it last
\*   event      what started the last load: "mount", "facet" (a facet handler) or
\*              "page" (a pagination button); pageBefore: currentPage before it
\*   failures   the remote calls that have failed
LoadLogInit(facets) ==
    [nextId |-> 1, lastOk |-> FALSE, counted |-> FALSE, countFacets |-> facets,
     event |-> "none", pageBefore |-> 1, failures |-> 0]

\* ------------------------------------------------------------------ ProductInsertReporting

\* const ITEMS_PER_PAGE = 6
PirItemsPerPage == 6

\* The product_inserts table.
InsertRow(i) ==
    [id          |-> i,
     customer_id |-> IF i % 3 = 0 THEN "c1" ELSE "c2",
     start_date  |-> 1 + (i % 2),
     end_date    |-> 1 + (i % 2) + (IF i % 4 = 0 THEN 1 ELSE 0),
     created_at  |-> i]

InsertRows == {InsertRow(i) : i \in 1..NumInserts}

\* The facets of a state or of a load's snapshot.
PirFacets(p) ==
    [startDate |-> p.startDate, endDate |-> p.endDate,
     selectedCustomerIds |-> p.selectedCustomerIds]

PirInit ==
    [inserts |-> <<>>, customers |-> {}, loading |-> TRUE, totalCount |-> 0,
     currentPage |-> 1, startDate |-> NoDate, endDate |-> NoDate,
     selectedCustomerIds |-> {}]

\* Mutant of FetchInsertsFilters: the customer facet is not applied.
FetchInsertsFiltersNoCustomers(startDate, endDate, selectedCustomerIds) ==
       (IF startDate # NoDate
        THEN <<[op |-> "gte", field |-> "end_date", value |-> startDate]>> ELSE <<>>)
    \o (IF endDate # NoDate
        THEN <<[op |-> "lte", field |-> "start_date", value |-> endDate]>> ELSE <<>>)

\* Mutant of FetchInsertsFilters: the date bounds are put on the row's own bounds,
\* which keeps the rows inside the selected range only.
FetchInsertsFiltersContained(startDate, endDate, selectedCustomerIds) ==
       (IF startDate # NoDate
        THEN <<[op |-> "gte", field |-> "start_date", value |-> startDate]>> ELSE <<>>)
    \o (IF endDate # NoDate
        THEN <<[op |-> "lte", field |-> "end_date", value |-> endDate]>> ELSE <<>>)
    \o (IF selectedCustomerIds # {}
        THEN <<[op |-> "in", field |-> "customer_id", value |-> selectedCustomerIds]>>
        ELSE <<>>)

\* The filters fetchInserts puts on the product_inserts query.
FetchInsertsFilters(startDate, endDate, selectedCustomerIds) ==
       (IF startDate # NoDate
        THEN <<[op |-> "gte", field |-> "end_date", value |-> startDate]>> ELSE <<>>)
    \o (IF endDate # NoDate
        THEN <<[op |-> "lte", field |-> "start_date", value |-> endDate]>> ELSE <<>>)
    \o (IF selectedCustomerIds # {}
        THEN <<[op |-> "in", field |-> "customer_id", value |-> selectedCustomerIds]>>
        ELSE <<>>)

\* data and count of the answer to load l (count: 'exact' ignores the range).
FetchInsertsData(l) ==
    LET rows == Matching(InsertRows,
                         FetchInsertsFilters(l.startDate, l.endDate, l.selectedCustomerIds))
        startIndex == (l.currentPage - 1) * PirItemsPerPage
    IN  Range(OrderDesc(rows, "created_at"), startIndex, startIndex + PirItemsPerPage - 1)

FetchInsertsCount(l) ==
    Cardinality(Matching(InsertRows,
                FetchInsertsFilters(l.startDate, l.endDate, l.selectedCustomerIds)))

\* const totalPages = Math.ceil(totalCount / ITEMS_PER_PAGE)
PirTotalPages == CeilDiv(pir.totalCount, PirItemsPerPage)

\* The pagination buttons are rendered.
PirPaginationShown == ~pir.loading /\ Len(pir.inserts) # 0 /\ PirTotalPages > 1

\* disabled={currentPage === 1} of the previous-page button
PirPrevDisabled == pir.currentPage = 1

\* disabled={currentPage === totalPages} of the next-page button
PirNextDisabled == pir.currentPage = PirTotalPages

\* fetchInserts, started by the effect after a render with the state p: up to its
\* await.
FetchInserts(p, event) ==
    IF ~pagePermissions.can_view
    THEN /\ pir' = [p EXCEPT !.loading = FALSE]
         /\ UNCHANGED <<pirLoads, pirLog>>
    ELSE LET l == [id |-> pirLog.nextId, currentPage |-> p.currentPage,
                   startDate |-> p.startDate, endDate |-> p.endDate,
                   selectedCustomerIds |-> p.selectedCustomerIds]
         IN  /\ pir' = [p EXCEPT !.loading = TRUE]
             /\ pirLoads' = pirLoads \cup {l}
             /\ pirLog' = [pirLog EXCEPT !.nextId = @ + 1, !.lastOk = FALSE,
                                         !.event = event, !.pageBefore = pir.currentPage]

PirOthers == <<appVars, mounted, notifications, piVars, pirInitial, cpaVars>>

PirUsable == view = "ProductInsertReporting" /\ mounted /\ pagePermissions.can_view

\* A handler may start one more load within the bounds.
PirMayLoad == pirLog.nextId <= loadBudget /\ Cardinality(pirLoads) < MaxInFlight

\* Mount: both effects run, fetchInitialData and fetchInserts.
MountProductInsertReporting ==
    /\ view = "ProductInsertReporting" /\ ~mounted
    /\ mounted' = TRUE
    /\ pirInitial' = TRUE
    /\ FetchInserts(pir, "mount")
    /\ UNCHANGED <<appVars, notifications, piVars, cpaVars>>

\* fetchInitialData: the customers query answers.
FetchInitialDataReturns ==
    /\ view = "ProductInsertReporting" /\ pirInitial
    /\ pirInitial' = FALSE
    /\ pir' = [pir EXCEPT !.customers = Customers]
    /\ UNCHANGED <<appVars, mounted, notifications, piVars, pirLoads, pirLog, cpaVars>>

FetchInitialDataFails ==
    /\ view = "ProductInsertReporting" /\ pirInitial
    /\ pirLog.failures < MaxFailures
    /\ pirInitial' = FALSE
    /\ notifications' = ShowNotification(notifications, "Failed to load customers")
    /\ pirLog' = [pirLog EXCEPT !.failures = @ + 1]
    /\ UNCHANGED <<appVars, mounted, piVars, pir, pirLoads, cpaVars>>

\* start date input onChange: setStartDate(e.target.value); setCurrentPage(1)
PirSetStartDate(d) ==
    /\ PirUsable /\ PirMayLoad
    /\ d # pir.startDate
    /\ FetchInserts([pir EXCEPT !.startDate = d, !.currentPage = 1], "facet")
    /\ UNCHANGED PirOthers

\* end date input onChange: setEndDate(e.target.value); setCurrentPage(1)
PirSetEndDate(d) ==
    /\ PirUsable /\ PirMayLoad
    /\ d # pir.endDate
    /\ FetchInserts([pir EXCEPT !.endDate = d, !.currentPage = 1], "facet")
    /\ UNCHANGED PirOthers

\* Mutant of CustomerToggled: setCurrentPage(1) is missing.
CustomerToggledKeepsPage(p, id) ==
    LET newSet == IF id \in p.selectedCustomerIds
                  THEN p.selectedCustomerIds \ {id}
                  ELSE p.selectedCustomerIds \cup {id}
    IN  [p EXCEPT !.selectedCustomerIds = newSet]

\* The state handleCustomerToggle(id) sets.
CustomerToggled(p, id) ==
    LET newSet == IF id \in p.selectedCustomerIds
                  THEN p.selectedCustomerIds \ {id}
                  ELSE p.selectedCustomerIds \cup {id}
    IN  [p EXCEPT !.selectedCustomerIds = newSet, !.currentPage = 1]

\* handleCustomerToggle, a click on an option of the customer dropdown.
HandleCustomerToggle(id) ==
    /\ PirUsable /\ PirMayLoad
    /\ id \in pir.customers
    /\ FetchInserts(CustomerToggled(pir, id), "facet")
    /\ UNCHANGED PirOthers

\* handleResetFilters (ProductInsertReporting)
PirHandleResetFilters ==
    /\ PirUsable /\ PirMayLoad
    /\ FetchInserts([pir EXCEPT !.startDate = NoDate, !.endDate = NoDate,
                                !.selectedCustomerIds = {}, !.currentPage = 1], "facet")
    /\ UNCHANGED PirOthers

\* previous-page button: setCurrentPage(p => p - 1)
PirPrevPage ==
    /\ PirUsable /\ PirMayLoad
    /\ PirPaginationShown /\ ~PirPrevDisabled
    /\ FetchInserts([pir EXCEPT !.currentPage = @ - 1], "page")
    /\ UNCHANGED PirOthers

\* Mutant of NextPageState: the button also clears the customer facet.
NextPageStateClearsCustomers(p) ==
    [p EXCEPT !.currentPage = @ + 1, !.selectedCustomerIds = {}]

\* The state the next-page button sets: setCurrentPage(p => p + 1)
NextPageState(p) == [p EXCEPT !.currentPage = @ + 1]

\* next-page button
PirNextPage ==
    /\ PirUsable /\ PirMayLoad
    /\ PirPaginationShown /\ ~PirNextDisabled
    /\ FetchInserts(NextPageState(pir), "page")
    /\ UNCHANGED PirOthers

\* fetchInserts after its await, the query of load l having answered with data.
FetchInsertsReturns(l) ==
    /\ view = "ProductInsertReporting" /\ l \in pirLoads
    /\ pirLoads' = pirLoads \ {l}
    /\ pir' = [pir EXCEPT !.inserts = FetchInsertsData(l),
                          !.totalCount = FetchInsertsCount(l),
                          !.loading = FALSE]
    /\ pirLog' = [pirLog EXCEPT !.lastOk = IF l.id + 1 = pirLog.nextId THEN TRUE ELSE @,
                                !.counted = TRUE, !.countFacets = PirFacets(l)]
    /\ UNCHANGED PirOthers

\* fetchInserts after its await, the query of load l having answered with an error.
FetchInsertsFails(l) ==
    /\ view = "ProductInsertReporting" /\ l \in pirLoads
    /\ pirLog.failures < MaxFailures
    /\ pirLoads' = pirLoads \ {l}
    /\ notifications' = ShowNotification(notifications, "Failed to load reports")
    /\ pir' = [pir EXCEPT !.loading = FALSE]
    /\ pirLog' = [pirLog EXCEPT !.failures = @ + 1]
    /\ UNCHANGED <<appVars, mounted, piVars, pirInitial, cpaVars>>

\* ------------------------------------------------------------------ CompetitorPriceAnalysisReport

\* const ITEMS_PER_PAGE = 5
CpaItemsPerPage == 5

Products == {"p1", "p2", "p3"}

\* The dates the user picks in the date inputs of this view.
CpaDateInputs == {2}

\* Mutant of DayStart: the bound is the last instant of the day.
DayStartAtEnd(d) == d * TicksPerDay + (TicksPerDay - 1)

\* `${startDate}T00:00:00.000Z` and `${endDate}T23:59:59.999Z` as instants: a day
\* has TicksPerDay instants.
DayStart(d) == d * TicksPerDay

DayEnd(d) == d * TicksPerDay + (TicksPerDay - 1)

\* The competitor_price_analysis table; no two rows share analysis_date.
AnalysisRow(i) ==
    [id            |-> i,
     customer_id   |-> IF i % 3 = 0 THEN "c1" ELSE "c2",
     analysis_date |-> (1 + ((i - 1) \div TicksPerDay)) * TicksPerDay
                       + ((i - 1) % TicksPerDay)]

AnalysisRows == {AnalysisRow(i) : i \in 1..NumAnalyses}

\* The competitor_price_analysis_items table: no item references p3.
ItemRows ==
    {[analysis_id |-> i, product_id |-> "p1"] : i \in {j \in 1..NumAnalyses : j % 2 = 0}}
    \cup
    {[analysis_id |-> i, product_id |-> "p2"] : i \in {j \in 1..NumAnalyses : j % 3 = 0}}

\* const initialFilters
InitialFilters == [startDate |-> NoDate, endDate |-> NoDate, customerId |-> "",
                   productIds |-> {}]

\* productSelect is the value the (uncontrolled) product <select> shows.
CpaInit ==
    [reports |-> <<>>, customers |-> {}, allProducts |-> {}, loading |-> TRUE,
     totalCount |-> 0, currentPage |-> 1, filters |-> InitialFilters,
     productSelect |-> ""]

\* const totalPages = Math.ceil(totalCount / ITEMS_PER_PAGE)
CpaTotalPages == CeilDiv(cpa.totalCount, CpaItemsPerPage)

\* The pagination buttons are rendered.
CpaPaginationShown == ~cpa.loading /\ Len(cpa.reports) # 0 /\ CpaTotalPages > 1

\* disabled={currentPage === 1} of the previous-page button
CpaPrevDisabled == cpa.currentPage = 1

\* disabled={currentPage === totalPages} of the next-page button
CpaNextDisabled == cpa.currentPage = CpaTotalPages

\* The query on competitor_price_analysis_items, mapped to analysis_id.
MatchingAnalysisIds(productIds) ==
    {i.analysis_id : i \in Matching(ItemRows,
        <<[op |-> "in", field |-> "product_id", value |-> productIds]>>)}

\* The filters fetchReports puts on analysisIdsQuery; withIds: the product facet
\* was set and ids are the matchingAnalysisIds.
AnalysisIdsFilters(f, withIds, ids) ==
       (IF f.startDate # NoDate
        THEN <<[op |-> "gte", field |-> "analysis_date", value |-> DayStart(f.startDate)]>>
        ELSE <<>>)
    \o (IF f.endDate # NoDate
        THEN <<[op |-> "lte", field |-> "analysis_date", value |-> DayEnd(f.endDate)]>>
        ELSE <<>>)
    \o (IF f.customerId # ""
        THEN <<[op |-> "eq", field |-> "customer_id", value |-> f.customerId]>>
        ELSE <<>>)
    \o (IF withIds THEN <<[op |-> "in", field |-> "id", value |-> ids]>> ELSE <<>>)

\* idData of load l, as the set of ids; its size is count.
IdData(l) ==
    {r.id : r \in Matching(AnalysisRows, AnalysisIdsFilters(l.filters, l.withIds, l.ids))}

\* data of the detail query of load l, whose ids are idData.
DetailData(l) ==
    LET rows == Matching(AnalysisRows, <<[op |-> "in", field |-> "id", value |-> l.ids]>>)
        startIndex == (l.page - 1) * CpaItemsPerPage
    IN  Range(OrderDesc(rows, "analysis_date"), startIndex, startIndex + CpaItemsPerPage - 1)

\* Mutant of NoIdData: the early return is missing.
NoIdDataIgnored(idData) == FALSE

\* if (!idData || idData.length === 0): the load ends without the detail query.
NoIdData(idData) == idData = {}

\* fetchReports(page, currentFilters) up to its first await, started by the effect
\* after a render with the state c.
FetchReports(c, event) ==
    IF ~pagePermissions.can_view
    THEN /\ cpa' = [c EXCEPT !.loading = FALSE]
         /\ UNCHANGED <<cpaLoads, cpaLog>>
    ELSE LET l == [id |-> cpaLog.nextId, page |-> c.currentPage, filters |-> c.filters,
                   stage |-> IF c.filters.productIds # {} THEN "items" ELSE "ids",
                   withIds |-> FALSE, ids |-> {}]
         IN  /\ cpa' = [c EXCEPT !.loading = TRUE]
             /\ cpaLoads' = cpaLoads \cup {l}
             /\ cpaLog' = [cpaLog EXCEPT !.nextId = @ + 1, !.lastOk = FALSE,
                                         !.event = event, !.pageBefore = cpa.currentPage]

CpaOthers == <<appVars, mounted, notifications, piVars, pirVars, cpaDropdown>>

CpaUsable ==
    view = "CompetitorPriceAnalysisReport" /\ mounted /\ pagePermissions.can_view

\* A handler may start one more load within the bounds.
CpaMayLoad == cpaLog.nextId <= loadBudget /\ Cardinality(cpaLoads) < MaxInFlight

\* Mount: both effects run, fetchDropdownData and fetchReports.
MountCompetitorPriceAnalysisReport ==
    /\ view = "CompetitorPriceAnalysisReport" /\ ~mounted
    /\ mounted' = TRUE
    /\ cpaDropdown' = TRUE
    /\ FetchReports(cpa, "mount")
    /\ UNCHANGED <<appVars, notifications, piVars, pirVars>>

\* fetchDropdownData after Promise.all: each query gave its rows or an error,
\* whose data is null.
FetchDropdownDataReturns(customersOk, productsOk) ==
    /\ view = "CompetitorPriceAnalysisReport" /\ cpaDropdown
    /\ LET failed == (IF customersOk THEN 0 ELSE 1) + (IF productsOk THEN 0 ELSE 1)
       IN  /\ cpaLog.failures + failed <= MaxFailures
           /\ cpaLog' = [cpaLog EXCEPT !.failures = @ + failed]
    /\ cpaDropdown' = FALSE
    /\ cpa' = [cpa EXCEPT !.customers = IF customersOk THEN Customers ELSE {},
                          !.allProducts = IF productsOk THEN Products ELSE {}]
    /\ UNCHANGED <<appVars, mounted, notifications, piVars, pirVars, cpaLoads>>

\* Mutant of HandleFilterChange: setCurrentPage(1) is missing.
HandleFilterChangeKeepsPage(c, field, value) ==
    FetchReports([c EXCEPT !.filters = [@ EXCEPT ![field] = value]], "facet")

\* handleFilterChange(field, value) and the effect it triggers: the state c is
\* the state with the DOM changes of the event applied.
HandleFilterChange(c, field, value) ==
    FetchReports([c EXCEPT !.filters = [@ EXCEPT ![field] = value], !.currentPage = 1],
                 "facet")

\* handleProductFilterChange(productId)
HandleProductFilterChange(c, productId) ==
    LET newSet == IF productId \in c.filters.productIds
                  THEN c.filters.productIds \ {productId}
                  ELSE c.filters.productIds \cup {productId}
    IN  HandleFilterChange(c, "productIds", newSet)

\* start date input onChange
CpaSetStartDate(d) ==
    /\ CpaUsable /\ CpaMayLoad
    /\ d # cpa.filters.startDate
    /\ HandleFilterChange(cpa, "startDate", d)
    /\ UNCHANGED CpaOthers

\* end date input onChange
CpaSetEndDate(d) ==
    /\ CpaUsable /\ CpaMayLoad
    /\ d # cpa.filters.endDate
    /\ HandleFilterChange(cpa, "endDate", d)
    /\ UNCHANGED CpaOthers

\* customer <select> onChange
CpaSetCustomer(id) ==
    /\ CpaUsable /\ CpaMayLoad
    /\ id \in cpa.customers \cup {""}
    /\ id # cpa.filters.customerId
    /\ HandleFilterChange(cpa, "customerId", id)
    /\ UNCHANGED CpaOthers

\* product <select> onChange: the user picks another option, the placeholder
\* (value "") included.
CpaSelectProduct(productId) ==
    /\ CpaUsable /\ CpaMayLoad
    /\ productId \in cpa.allProducts \cup {""}
    /\ productId # cpa.productSelect
    /\ HandleProductFilterChange([cpa EXCEPT !.productSelect = productId], productId)
    /\ UNCHANGED CpaOthers

\* The X button of a product chip; a chip is shown for the ids found in allProducts.
CpaRemoveProductChip(productId) ==
    /\ CpaUsable /\ CpaMayLoad
    /\ productId \in cpa.filters.productIds \cap cpa.allProducts
    /\ HandleProductFilterChange(cpa, productId)
    /\ UNCHANGED CpaOthers

\* handleResetFilters (CompetitorPriceAnalysisReport)
CpaHandleResetFilters ==
    /\ CpaUsable /\ CpaMayLoad
    /\ FetchReports([cpa EXCEPT !.filters = InitialFilters, !.currentPage = 1], "facet")
    /\ UNCHANGED CpaOthers

\* previous-page button
CpaPrevPage ==
    /\ CpaUsable /\ CpaMayLoad
    /\ CpaPaginationShown /\ ~CpaPrevDisabled
    /\ FetchReports([cpa EXCEPT !.currentPage = @ - 1], "page")
    /\ UNCHANGED CpaOthers

\* next-page button
CpaNextPage ==
    /\ CpaUsable /\ CpaMayLoad
    /\ CpaPaginationShown /\ ~CpaNextDisabled
    /\ FetchReports([cpa EXCEPT !.currentPage = @ + 1], "page")
    /\ UNCHANGED CpaOthers

\* Mutant of FetchReportsFailed: the catch block also empties the list.
FetchReportsFailedClears(c) == [c EXCEPT !.loading = FALSE, !.reports = <<>>]

\* The component state after the catch and finally blocks of fetchReports.
FetchReportsFailed(c) == [c EXCEPT !.loading = FALSE]

\* The load l ends in the catch block: notification, then finally.
FetchReportsFails(l) ==
    /\ cpaLog.failures < MaxFailures
    /\ cpaLoads' = cpaLoads \ {l}
    /\ notifications' = ShowNotification(notifications, "Failed to load reports")
    /\ cpa' = FetchReportsFailed(cpa)
    /\ cpaLog' = [cpaLog EXCEPT !.failures = @ + 1]
    /\ UNCHANGED <<appVars, mounted, piVars, pirVars, cpaDropdown>>

\* fetchReports after the await of the items lookup: analysisIdsQuery gets
\* .in('id', matchingAnalysisIds) and is issued.
ItemLookupReturns(l) ==
    /\ view = "CompetitorPriceAnalysisReport" /\ l \in cpaLoads /\ l.stage = "items"
    /\ LET matchingAnalysisIds == MatchingAnalysisIds(l.filters.productIds)
       IN  cpaLoads' = (cpaLoads \ {l}) \cup
              {[l EXCEPT !.stage = "ids", !.withIds = TRUE, !.ids = matchingAnalysisIds]}
    /\ UNCHANGED <<cpa, cpaLog, CpaOthers>>

ItemLookupFails(l) ==
    /\ view = "CompetitorPriceAnalysisReport" /\ l \in cpaLoads /\ l.stage = "items"
    /\ FetchReportsFails(l)

\* fetchReports after the await of analysisIdsQuery: the count is stored; without
\* ids the load ends with an empty page, otherwise the detail query is issued.
AnalysisIdsReturns(l) ==
    /\ view = "CompetitorPriceAnalysisReport" /\ l \in cpaLoads /\ l.stage = "ids"
    /\ LET idData == IdData(l)
       IN  IF NoIdData(idData)
           THEN /\ cpa' = [cpa EXCEPT !.totalCount = Cardinality(idData),
                                      !.reports = <<>>, !.loading = FALSE]
                /\ cpaLoads' = cpaLoads \ {l}
                /\ cpaLog' = [cpaLog EXCEPT
                       !.counted = TRUE, !.countFacets = l.filters,
                       !.lastOk = IF l.id + 1 = cpaLog.nextId THEN TRUE ELSE @]
           ELSE /\ cpa' = [cpa EXCEPT !.totalCount = Cardinality(idData)]
                /\ cpaLoads' = (cpaLoads \ {l}) \cup
                      {[l EXCEPT !.stage = "detail", !.ids = idData]}
                /\ cpaLog' = [cpaLog EXCEPT !.counted = TRUE, !.countFacets = l.filters]
    /\ UNCHANGED CpaOthers

AnalysisIdsFails(l) ==
    /\ view = "CompetitorPriceAnalysisReport" /\ l \in cpaLoads /\ l.stage = "ids"
    /\ FetchReportsFails(l)

\* fetchReports after the await of the detail query.
DetailReturns(l) ==
    /\ view = "CompetitorPriceAnalysisReport" /\ l \in cpaLoads /\ l.stage = "detail"
    /\ cpa' = [cpa EXCEPT !.reports = DetailData(l), !.loading = FALSE]
    /\ cpaLoads' = cpaLoads \ {l}
    /\ cpaLog' = [cpaLog EXCEPT !.lastOk = IF l.id + 1 = cpaLog.nextId THEN TRUE ELSE @]
    /\ UNCHANGED CpaOthers

DetailFails(l) ==
    /\ view = "CompetitorPriceAnalysisReport" /\ l \in cpaLoads /\ l.stage = "detail"
    /\ FetchReportsFails(l)

\* ------------------------------------------------------------------ properties: customer search

RequestIds == {searchLog.requests[i].id : i \in 1..Len(searchLog.requests)}

LastRequest == searchLog.requests[Len(searchLog.requests)]

\* C1: when every issued request has answered, the last issued one answered with
\* data and the input was not emptied since, filteredCustomers holds the result of
\* that last issued request: an earlier request that answers later does not
\* replace it.
C1_LaterRequestWins ==
    (searches = {} /\ searchLog.lastOk # 0 /\ searchLog.lastOk = LastRequest.id)
        => filteredCustomers \in SearchResults(LastRequest.q)

\* C2: while the input is empty filteredCustomers is empty: a request that
\* answers after the input was emptied does not fill it again.
C2_EmptyInputShowsNothing == customerSearch = <<>> => filteredCustomers = {}

\* C4: changes of a non-empty input that each fall within the quiet period of the
\* previous one are coalesced: at most one timer is pending and it carries the
\* current input; a timer superseded while pending never issues a request; and
\* once no timer is pending exactly one request has been issued for the last
\* timer, carrying the (lower-cased) final input (unless the component was torn
\* down, which cancels the timer).
C4_DebounceCoalescing ==
    /\ Cardinality(timers) <= 1
    /\ \A t \in timers : t.id = debounceTimeout /\ t.q = customerSearch
    /\ RequestIds \cap searchLog.superseded = {}
    /\ (~tornDown /\ customerSearch # <<>> /\ timers = {}) =>
          /\ Cardinality({i \in 1..Len(searchLog.requests) :
                            searchLog.requests[i].id = debounceTimeout}) = 1
          /\ LastRequest = [id |-> debounceTimeout, q |-> ToLowerCase(customerSearch)]

\* C4 witness: an input was superseded within its quiet period, the input then
\* stopped changing and the single request for the final input has been issued.
C4_Witness ==
    /\ searchLog.superseded # {}
    /\ customerSearch # <<>>
    /\ timers = {}
    /\ Len(searchLog.requests) = 1
    /\ searchLog.requests[1].q = ToLowerCase(customerSearch)

\* C5: emptying the input empties filteredCustomers in the same step, leaves no
\* timer pending and issues no request; while the input is empty no timer is
\* pending; and a typing that was superseded within its quiet period (by an
\* emptied input or any other change) never issues a request.
C5_ClearIsImmediate ==
    /\ [](customerSearch = <<>> => timers = {})
    /\ [](RequestIds \cap searchLog.superseded = {})
    /\ [][(customerSearch # <<>> /\ customerSearch' = <<>>) =>
            /\ filteredCustomers' = {}
            /\ timers' = {}
            /\ searches' = searches
            /\ searchLog'.requests = searchLog.requests]_vars

\* C5 witness: a text was typed and emptied within its quiet period; no request
\* was issued and the list is empty.
C5_Witness ==
    /\ searchLog.superseded # {}
    /\ customerSearch = <<>>
    /\ searchLog.requests = <<>>
    /\ timers = {}
    /\ filteredCustomers = {}

\* C14: when a search request answers with an error, filteredCustomers and the
\* open state of the candidate list are left as they were before the response,
\* and the failure is logged with one console.error.
C14_FailedSearchKeepsResults ==
    [][searchLog'.failed # searchLog.failed =>
          /\ filteredCustomers' = filteredCustomers
          /\ isCustomerDropdownOpen' = isCustomerDropdownOpen
          /\ consoleErrors' = consoleErrors + 1
          /\ notifications' = notifications]_vars

\* C14 witness: a request failed while the results of an earlier request were
\* shown, and they still are.
C14_Witness ==
    /\ searchLog.failed = 1
    /\ consoleErrors = 1
    /\ Len(searchLog.requests) = 2
    /\ searchLog.lastOk # LastRequest.id
    /\ searches = {}
    /\ filteredCustomers # {}
    /\ isCustomerDropdownOpen

\* ------------------------------------------------------------------ properties: report views

\* A row of product_inserts satisfies the facets f: each set facet constrains, an
\* unset one does not.
InsertSatisfiesFacets(r, f) ==
    /\ f.startDate = NoDate \/ r.end_date >= f.startDate
    /\ f.endDate = NoDate \/ r.start_date <= f.endDate
    /\ f.selectedCustomerIds = {} \/ r.customer_id \in f.selectedCustomerIds

FacetInserts(f) == {r \in InsertRows : InsertSatisfiesFacets(r, f)}

\* A row of competitor_price_analysis satisfies the facets f.
AnalysisSatisfiesFacets(r, f) ==
    /\ f.startDate = NoDate \/ r.analysis_date >= DayStart(f.startDate)
    /\ f.endDate = NoDate \/ r.analysis_date <= DayEnd(f.endDate)
    /\ f.customerId = "" \/ r.customer_id = f.customerId
    /\ f.productIds = {} \/
          \E i \in ItemRows : i.analysis_id = r.id /\ i.product_id \in f.productIds

FacetAnalyses(f) == {r \in AnalysisRows : AnalysisSatisfiesFacets(r, f)}

\* The page p of size s of rows in descending order of field.
PageOf(rows, field, p, s) == Range(OrderDesc(rows, field), (p - 1) * s, p * s - 1)

\* C3: once every load has ended and the most recently started one succeeded,
\* the page list and the total count shown are that load's, which was started
\* with the facets and the page of the current state: the response of an earlier
\* load that arrives later does not replace them.
C3_LatestLoadWins ==
    /\ (pirLoads = {} /\ pirLog.lastOk) =>
          /\ pir.totalCount = Cardinality(FacetInserts(PirFacets(pir)))
          /\ pir.inserts = PageOf(FacetInserts(PirFacets(pir)), "created_at",
                                  pir.currentPage, PirItemsPerPage)
    /\ (cpaLoads = {} /\ cpaLog.lastOk) =>
          /\ cpa.totalCount = Cardinality(FacetAnalyses(cpa.filters))
          /\ cpa.reports = PageOf(FacetAnalyses(cpa.filters), "analysis_date",
                                  cpa.currentPage, CpaItemsPerPage)

\* C6: whenever a load has stored the total count, currentPage is at most
\* ceil(totalCount / ITEMS_PER_PAGE).  Stated for totalCount > 0 only, the reading
\* most favourable to the code (with no rows, page 1 exceeds 0 pages).
C6_PageWithinTotal ==
    /\ (pirLog.counted /\ pir.totalCount > 0) =>
          pir.currentPage <= CeilDiv(pir.totalCount, PirItemsPerPage)
    /\ (cpaLog.counted /\ cpa.totalCount > 0) =>
          cpa.currentPage <= CeilDiv(cpa.totalCount, CpaItemsPerPage)

\* C7: every facet mutation (a date input, a customer toggle or selection, a
\* product toggle, reset filters) leaves currentPage at 1, whatever it was.
C7_FacetMutationResetsPage ==
    [][/\ (pirLog'.nextId # pirLog.nextId /\ pirLog'.event = "facet")
             => pir'.currentPage = 1
       /\ (cpaLog'.nextId # cpaLog.nextId /\ cpaLog'.event = "facet")
             => cpa'.currentPage = 1]_vars

\* C7 witness: a facet was changed while page 2 was shown, and the page is 1.
C7_Witness ==
    /\ pirLog.event = "facet"
    /\ pirLog.pageBefore = 2
    /\ pir.selectedCustomerIds # {}
    /\ pir.currentPage = 1

\* C8: a pagination button moves currentPage by one and leaves the start date,
\* the end date, the customer facet and the product facet as they were.
C8_NavigationKeepsFacets ==
    [][/\ (pirLog'.nextId # pirLog.nextId /\ pirLog'.event = "page") =>
             /\ PirFacets(pir') = PirFacets(pir)
             /\ pir'.currentPage \in {pir.currentPage - 1, pir.currentPage + 1}
       /\ (cpaLog'.nextId # cpaLog.nextId /\ cpaLog'.event = "page") =>
             /\ cpa'.filters = cpa.filters
             /\ cpa'.currentPage \in {cpa.currentPage - 1, cpa.currentPage + 1}]_vars

\* C8 witness: the next-page button was used while a customer facet was set.
C8_Witness ==
    /\ pirLog.event = "page"
    /\ pir.currentPage = 2
    /\ pir.selectedCustomerIds # {}

\* The items lookup of load l has answered with no row: analysisIdsQuery is in
\* flight with .in('id', []).
LookupFoundNothing(l) == l.stage = "ids" /\ l.withIds /\ l.ids = {}

\* The load l is in flight in this state and not in the next.
LoadEnds(l) == \A m \in cpaLoads' : m.id # l.id

C10_CountIsConjunction ==
    /\ pirLog.counted => pir.totalCount = Cardinality(FacetInserts(pirLog.countFacets))
    /\ cpaLog.counted => cpa.totalCount = Cardinality(FacetAnalyses(cpaLog.countFacets))

\* C10 witness: a load with a customer facet and a product facet stored a count
\* that is neither 0 nor the unfiltered total.
C10_Witness ==
    /\ cpaLog.counted
    /\ cpaLog.countFacets.customerId # ""
    /\ cpaLog.countFacets.productIds # {}
    /\ cpa.totalCount > 0
    /\ cpa.totalCount < NumAnalyses

\* ------------------------------------------------------------------ properties: pagination

Max(a, b) == IF a > b THEN a ELSE b

\* The row of rows at position pos (from 0) in descending order of field: the
\* row that exactly pos rows precede.
RowAt(rows, field, pos) ==
    CHOOSE r \in rows : Cardinality({x \in rows : x[field] > r[field]}) = pos

\* The ids of the records at positions (p-1)*s .. min(p*s, N)-1 of the N rows in
\* descending order of field: min(s, max(0, N-(p-1)*s)) of them.
ExpectedPage(rows, field, p, s) ==
    LET N == Cardinality(rows)
        n == Min(s, Max(0, N - (p - 1) * s))
    IN  [k \in 1..n |-> RowAt(rows, field, (p - 1) * s + k - 1).id]

\* C11: a load that ends successfully for the page p and the facets f stores as
\* page list exactly the records at positions (p-1)*s .. min(p*s, N)-1 of the N
\* rows matching f in descending order of the timestamp; and when the load for
\* page 3 over 12 matching analyses (s = 5) ends with that page and that count
\* shown, the list has 2 records, totalPages is 3, the next button is disabled
\* and the previous button is enabled.
C11_PageIsTheOrderedSlice ==
    [][/\ \A l \in pirLoads :
             (l \notin pirLoads' /\ notifications' = notifications) =>
                pir'.inserts = ExpectedPage(FacetInserts(PirFacets(l)), "created_at",
                                            l.currentPage, PirItemsPerPage)
       /\ \A l \in cpaLoads :
             (LoadEnds(l) /\ notifications' = notifications) =>
                /\ cpa'.reports = ExpectedPage(FacetAnalyses(l.filters), "analysis_date",
                                               l.page, CpaItemsPerPage)
                /\ (/\ l.page = 3 /\ cpa.currentPage = 3
                    /\ Cardinality(FacetAnalyses(l.filters)) = 12
                    /\ cpa.totalCount = 12) =>
                       /\ Len(cpa'.reports) = 2
                       /\ CpaTotalPages' = 3
                       /\ CpaPaginationShown'
                       /\ CpaNextDisabled'
                       /\ ~CpaPrevDisabled']_vars

\* C11 witness: page 3 of the 12 analyses is shown: 2 records, the oldest two.
C11_Witness ==
    /\ cpaLoads = {}
    /\ cpaLog.lastOk
    /\ cpa.currentPage = 3
    /\ cpa.totalCount = 12
    /\ cpa.reports = <<2, 1>>
    /\ CpaNextDisabled
    /\ ~CpaPrevDisabled

\* n is ceil(count / size): the least number of pages of that size that hold
\* count records, 0 for no record.
IsCeil(n, count, size) == n * size >= count /\ (n - 1) * size < count

\* A pagination button of the view was used in this step.
PirNavigates == pirLog'.nextId # pirLog.nextId /\ pirLog'.event = "page"

CpaNavigates == cpaLog'.nextId # cpaLog.nextId /\ cpaLog'.event = "page"

\* C12: totalPages is ceil(totalCount / ITEMS_PER_PAGE), 0 for totalCount = 0;
\* a step of the previous button is taken only from a page other than 1, a step
\* of the next button only from a page other than totalPages, and either only
\* when totalPages > 1; and a step of a pagination button never leaves
\* currentPage below 1 or above totalPages.
C12_NavigationStaysInRange ==
    /\ [](/\ IsCeil(PirTotalPages, pir.totalCount, PirItemsPerPage)
          /\ IsCeil(CpaTotalPages, cpa.totalCount, CpaItemsPerPage)
          /\ (pir.totalCount = 0 => PirTotalPages = 0)
          /\ (cpa.totalCount = 0 => CpaTotalPages = 0))
    /\ [][/\ PirNavigates =>
                /\ PirTotalPages > 1
                /\ pir'.currentPage = pir.currentPage - 1 => pir.currentPage # 1
                /\ pir'.currentPage = pir.currentPage + 1 => pir.currentPage # PirTotalPages
                /\ pir'.currentPage \in 1..PirTotalPages'
          /\ CpaNavigates =>
                /\ CpaTotalPages > 1
                /\ cpa'.currentPage = cpa.currentPage - 1 => cpa.currentPage # 1
                /\ cpa'.currentPage = cpa.currentPage + 1 => cpa.currentPage # CpaTotalPages
                /\ cpa'.currentPage \in 1..CpaTotalPages']_vars

\* Every facet snapshot a load of the view can carry, and every page.
PirFacetSpace ==
    [startDate : DateInputs \cup {NoDate}, endDate : DateInputs \cup {NoDate},
     selectedCustomerIds : SUBSET Customers]

CpaFacetSpace ==
    [startDate : CpaDateInputs \cup {NoDate}, endDate : CpaDateInputs \cup {NoDate},
     customerId : Customers \cup {""}, productIds : SUBSET (Products \cup {""})]

Pages == 1..(MaxNavigationLoads + 1)

\* C13: in every state in which no load is in flight (and some load has stored a
\* count), the total count and the page list shown are the count and a page of
\* one and the same facet snapshot.
C13_CountAndListOfOneSnapshot ==
    /\ (pirLoads = {} /\ pirLog.counted) =>
          \E f \in PirFacetSpace, p \in Pages :
              /\ pir.totalCount = Cardinality(FacetInserts(f))
              /\ pir.inserts = ExpectedPage(FacetInserts(f), "created_at", p, PirItemsPerPage)
    /\ (cpaLoads = {} /\ cpaLog.counted) =>
          \E f \in CpaFacetSpace, p \in Pages :
              /\ cpa.totalCount = Cardinality(FacetAnalyses(f))
              /\ cpa.reports = ExpectedPage(FacetAnalyses(f), "analysis_date", p,
                                            CpaItemsPerPage)

\* A load of the view ends with an error in this step.
PirLoadFails == pirLog'.failures # pirLog.failures /\ pirLoads' # pirLoads

CpaLoadFails == cpaLog'.failures # cpaLog.failures /\ cpaLoads' # cpaLoads

\* C15: the step in which a load fails adds exactly one notification, the error
\* of the load, and leaves the page list as it was.
C15_FailedLoadKeepsList ==
    [][/\ PirLoadFails =>
             /\ notifications' = Append(notifications, "Failed to load reports")
             /\ pir'.inserts = pir.inserts
       /\ CpaLoadFails =>
             /\ notifications' = Append(notifications, "Failed to load reports")
             /\ cpa'.reports = cpa.reports]_vars

\* C15 witness: a load of the analysis report failed while a page was shown; the
\* page is still shown, with one notification.
C15_Witness ==
    /\ cpaLog.failures = 1
    /\ cpaLoads = {}
    /\ notifications = <<"Failed to load reports">>
    /\ cpa.reports # <<>>
    /\ ~cpa.loading

Selects ==
    \/ isCustomerDropdownOpen /\ ~isCustomerDropdownOpen'
    \/ customerId' # customerId /\ customerId' # ""

\* C18: the step that chooses a candidate commits the identifier of a customer
\* of the list shown, puts that customer's name into the input and closes the
\* list.
C18_SelectionCommits ==
    [][Selects =>
          /\ CandidateListShown
          /\ customerId' \in filteredCustomers
          /\ customerSearch' = CustomerName(customerId')
          /\ ~isCustomerDropdownOpen'
          /\ ~CandidateListShown']_vars

\* C18 witness: c2 was chosen from the list found for another text.
C18_Witness ==
    /\ customerId = "c2"
    /\ customerSearch = CustomerName("c2")
    /\ ~isCustomerDropdownOpen
    /\ "c2" \in filteredCustomers
    /\ \E i \in 1..Len(searchLog.requests) :
           searchLog.requests[i].q # ToLowerCase(CustomerName("c2"))

\* C19: a step that empties the input clears customerId, and in every state an
\* empty input goes with an empty customerId.
C19_EmptyInputClearsId ==
    /\ [](customerSearch = <<>> => customerId = "")
    /\ [][(customerSearch # <<>> /\ customerSearch' = <<>>) => customerId' = ""]_vars

\* C19 witness: a candidate had been chosen, then the input was emptied by an
\* edit, and no save has reset the form.
C19_Witness ==
    /\ searchLog.chosen
    /\ saveLog.inserted = <<>>
    /\ customerSearch = <<>>
    /\ customerId = ""
    /\ isCustomerDropdownOpen

\* ------------------------------------------------------------------ properties: teardown

\* C20: once ProductInsert is torn down no timer is pending and no request is
\* issued, whatever was scheduled at the teardown.
C20_TeardownCancelsTimer ==
    /\ [](tornDown => timers = {})
    /\ [][tornDown' => searchLog'.requests = searchLog.requests]_vars

\* C20 witness: the component is torn down, the input holds a text, and the last
\* timer set for it has issued no request: it was pending at the teardown.
C20_Witness ==
    /\ tornDown
    /\ customerSearch # <<>>
    /\ debounceTimeout # 0
    /\ debounceTimeout \notin RequestIds
    /\ timers = {}

SaveClicked == saveLog'.clicks # saveLog.clicks

\* A required value is missing from the form.
ValueMissing ==
    \/ customerId = ""
    \/ form.productName = ""
    \/ form.insertPrice = <<>>
    \/ form.startDate = NoDate
    \/ form.endDate = NoDate

\* C22: a click on save with a missing value, or with the start date after the
\* end date, adds one notification (fields required, else date error), issues no
\* upload and no insert, leaves isSaving false and changes no form field.
C22_ValidationBeforeRemote ==
    [][(SaveClicked /\ (ValueMissing \/ form.startDate > form.endDate)) =>
          /\ notifications' = Append(notifications,
                 IF ValueMissing THEN "productInsert.validation.fieldsRequired"
                                 ELSE "productDisplay.validation.dateError")
          /\ saves' = saves
          /\ saveLog'.nextId = saveLog.nextId
          /\ saveLog'.inserted = saveLog.inserted
          /\ ~isSaving /\ ~isSaving'
          /\ form' = form
          /\ customerId' = customerId
          /\ customerSearch' = customerSearch]_vars

\* C22 witness: both validations have refused a click, the complete form has
\* its start date after its end date, and no save was ever started.
C22_Witness ==
    /\ notifications = <<"productInsert.validation.fieldsRequired",
                         "productDisplay.validation.dateError">>
    /\ ~ValueMissing
    /\ form.startDate > form.endDate
    /\ saveLog.nextId = 1
    /\ saves = {}
    /\ ~isSaving

\* ------------------------------------------------------------------ properties: failures

\* A remote call answers with an error in this step.
RemoteCallFails ==
    \/ searchLog'.failed # searchLog.failed
    \/ saveLog'.failures # saveLog.failures
    \/ pirLog'.failures # pirLog.failures
    \/ cpaLog'.failures # cpaLog.failures

\* C23, as claimed: the step in which a remote call answers with an error shows a
\* notification.
C23_FailuresNotified ==
    [][RemoteCallFails => Len(notifications') = Len(notifications) + 1]_vars

\* ------------------------------------------------------------------ properties: date range

\* The load answers without error in this step.
PirAnswers(l) == l \notin pirLoads' /\ pirLog'.failures = pirLog.failures

\* The identifier query of the load answers without error in this step.
CpaIdsAnswer(l) ==
    l.stage = "ids" /\ l \notin cpaLoads' /\ cpaLog'.failures = cpaLog.failures

\* C24: a load whose facets have a start date and no end date counts and shows
\* the rows that end (inserts), or fall (analyses), on or after the start day,
\* with no upper bound on the date.
C24_StartDateOnly ==
    [][/\ \A l \in pirLoads :
             (l.startDate # NoDate /\ l.endDate = NoDate /\ PirAnswers(l)) =>
                LET expected ==
                        {r \in InsertRows : /\ r.end_date >= l.startDate
                                            /\ \/ l.selectedCustomerIds = {}
                                               \/ r.customer_id \in l.selectedCustomerIds}
                IN  /\ pir'.totalCount = Cardinality(expected)
                    /\ \A k \in 1..Len(pir'.inserts) :
                           pir'.inserts[k] \in {r.id : r \in expected}
       /\ \A l \in cpaLoads :
             (l.filters.startDate # NoDate /\ l.filters.endDate = NoDate
                /\ CpaIdsAnswer(l)) =>
                LET expected ==
                        {r \in AnalysisRows :
                            /\ r.analysis_date \div TicksPerDay >= l.filters.startDate
                            /\ l.filters.customerId \in {"", r.customer_id}
                            /\ l.withIds => r.id \in l.ids}
                IN  cpa'.totalCount = Cardinality(expected)]_vars

\* C24 witness: the analysis report shows the load for a start date alone, which
\* kept some analyses and dropped others.
C24_Witness ==
    /\ cpa.filters.startDate # NoDate
    /\ cpa.filters.endDate = NoDate
    /\ cpa.filters.customerId = ""
    /\ cpa.filters.productIds = {}
    /\ cpaLoads = {}
    /\ cpaLog.lastOk
    /\ cpa.totalCount > 0
    /\ cpa.totalCount < NumAnalyses
    /\ cpa.reports # <<>>

\* ------------------------------------------------------------------ properties: search results

\* q occurs in text, letter case apart.
Contains(text, q) ==
    \E off \in 0..(Len(text) - Len(q)) :
        \A i \in 1..Len(q) : LowerChar(text[off + i]) = LowerChar(q[i])

\* The request r answers with data in this step, the component being mounted.
SearchAnswers(r) ==
    mounted /\ r \notin searches' /\ searchLog'.failed = searchLog.failed

\* C25, as claimed: a request for q that answers with data sets filteredCustomers
\* to at most SearchLimit customers, each with q in its name or its code.
C25_ResultsContainQuery ==
    [][\A r \in searches : SearchAnswers(r) =>
          /\ Cardinality(filteredCustomers') <= SearchLimit
          /\ \A c \in filteredCustomers' :
                Contains(CustomerName(c), r.q) \/ Contains(CustomerCode(c), r.q)]_vars

\* ------------------------------------------------------------------ properties: loads follow changes

\* C26: a step that changes a facet or the page of a report view starts one load,
\* whose query is built from the facets and the page as they are after the step;
\* the load of a facet change is for page 1.
C26_ChangeStartsLoad ==
    [][/\ (PirFacets(pir') # PirFacets(pir) \/ pir'.currentPage # pir.currentPage) =>
             \E l \in pirLoads' \ pirLoads :
                /\ pirLoads' = pirLoads \cup {l}
                /\ l.id = pirLog.nextId
                /\ PirFacets(l) = PirFacets(pir')
                /\ l.currentPage = pir'.currentPage
                /\ PirFacets(pir') # PirFacets(pir) => l.currentPage = 1
       /\ (cpa'.filters # cpa.filters \/ cpa'.currentPage # cpa.currentPage) =>
             \E l \in cpaLoads' \ cpaLoads :
                /\ cpaLoads' = cpaLoads \cup {l}
                /\ l.id = cpaLog.nextId
                /\ l.filters = cpa'.filters
                /\ l.page = cpa'.currentPage
                /\ cpa'.filters # cpa.filters => l.page = 1]_vars

\* C26 witness: on page 2 of the analysis report a customer was selected; the
\* load in flight is for that customer and page 1.
C26_Witness ==
    /\ cpaLog.event = "facet"
    /\ cpaLog.pageBefore = 2
    /\ cpa.filters.customerId # ""
    /\ \E l \in cpaLoads :
          l.id + 1 = cpaLog.nextId /\ l.filters = cpa.filters /\ l.page = 1

\* ------------------------------------------------------------------ properties: failed loads

\* C27, as claimed, for the first load of the analysis report while no other load
\* has been started: the view had totalCount = 0 and no reports when it started,
\* so it has them when the load fails, at whatever stage.
C27_FailedLoadKeepsState ==
    [][\A l \in cpaLoads :
          (l.id = 1 /\ cpaLog.nextId = 2 /\ LoadEnds(l) /\ CpaLoadFails) =>
             /\ cpa'.totalCount = CpaInit.totalCount
             /\ cpa'.reports = CpaInit.reports]_vars

\* ------------------------------------------------------------------ properties: in-flight flags

\* A load of the view, or a save, is in flight in this state and not in the next.
PirLoadEnds == \E l \in pirLoads : \A m \in pirLoads' : m.id # l.id

CpaLoadEnds == \E l \in cpaLoads : LoadEnds(l)

SaveEnds == \E u \in saves : \A w \in saves' : w.id # u.id

\* The mount of a report view whose load is refused for lack of can_view.
LoadRefused(v) == view = v /\ ~mounted /\ mounted' /\ ~pagePermissions.can_view

\* C17: the step in which a load ends (with data, with an error at any stage,
\* or short of the detail query) or is refused leaves loading false, and the step
\* in which a save of the mounted form ends leaves isSaving false; hence a mounted
\* view with no load in flight is not loading, and a mounted form with no save in
\* flight is not saving.
C17_FlagsNeverStuck ==
    /\ [](/\ (view = "ProductInsertReporting" /\ mounted /\ pirLoads = {}) => ~pir.loading
          /\ (view = "CompetitorPriceAnalysisReport" /\ mounted /\ cpaLoads = {})
                => ~cpa.loading
          /\ (view = "ProductInsert" /\ mounted /\ saves = {}) => ~isSaving)
    /\ [][/\ PirLoadEnds => ~pir'.loading
          /\ CpaLoadEnds => ~cpa'.loading
          /\ LoadRefused("ProductInsertReporting") => ~pir'.loading
          /\ LoadRefused("CompetitorPriceAnalysisReport") => ~cpa'.loading
          /\ (SaveEnds /\ mounted) => ~isSaving']_vars

\* C17 witness: the only save that was started has failed, and nothing is saving.
C17_Witness ==
    /\ saveLog.nextId = 2
    /\ saveLog.failures = 1
    /\ saves = {}
    /\ ~isSaving

\* C28, as claimed: a report view with a load in flight is loading.
C28_LoadingWhileInFlight ==
    /\ pirLoads # {} => pir.loading
    /\ cpaLoads # {} => cpa.loading

\* C29, as claimed: the product facet holds identifiers of products only, never
\* the empty string.
C29_ProductFacetHoldsProducts == cpa.filters.productIds \subseteq Products

\* A save is started in this step for a customer other than the one whose name
\* the input shows.
SavesCustomerNotShown ==
    \E u \in saves' \ saves : customerSearch # CustomerName(u.row.customer_id)

\* C30, as claimed: while customerId is set the input shows the name of that
\* customer, so no save is started for a customer other than the one shown.
C30_CommittedCustomerIsShown ==
    /\ [](customerId # "" => customerSearch = CustomerName(customerId))
    /\ [][~SavesCustomerNotShown]_vars

\* The second half of C30 alone.
SaveWritesCustomerShown == [][~SavesCustomerNotShown]_vars

\* ------------------------------------------------------------------ properties: save outcome

\* The save u ends in the catch block in this step.
SaveFailsAt(u, stage) ==
    /\ u \in saves /\ u.stage = stage
    /\ saveLog'.failures = saveLog.failures + 1
    /\ saveLog'.failedAt = stage

\* The values the user has entered in the form.
FormFields == <<customerId, customerSearch, form>>

\* C31: when an upload of a save answers with an error, that save is over and
\* inserts no row (the insert is only ever issued once every upload has answered
\* without error), the notification "productInsert.saveError" is shown, and the
\* customer id, the search text and every form field keep their values.
C31_UploadFailureInsertsNothing ==
    /\ [](\A w \in saves : w.stage = "insert" => w.pending = 0)
    /\ [][\A u \in saves : SaveFailsAt(u, "upload") =>
              /\ \A w \in saves' : w.id # u.id
              /\ saveLog'.inserted = saveLog.inserted
              /\ notifications' = Append(notifications, "productInsert.saveError")
              /\ FormFields' = FormFields]_vars

C31_Witness ==
    /\ view = "ProductInsert" /\ saveLog.failedAt = "upload"
    /\ saves = {} /\ saveLog.inserted = <<>>
    /\ form.photoFiles = 2 /\ ~FieldsMissing(customerId, form)
    /\ notifications # <<>>
    /\ notifications[Len(notifications)] = "productInsert.saveError"

\* The row insert of the save u answers without error in this step.
SaveSucceeds(u) ==
    /\ u \in saves /\ u.stage = "insert"
    /\ saveLog'.inserted = Append(saveLog.inserted, u.row)

\* C32: the step in which a save succeeds leaves the customer id, the search
\* text, the product name, the price, both dates and the photo list of the
\* mounted form at their empty values, whatever the user typed while the save
\* was in flight; the step in which a save fails, at an upload or at the insert,
\* leaves every one of them as it was.
C32_SuccessResetsFailureKeeps ==
    [][\A u \in saves :
          /\ (SaveSucceeds(u) /\ mounted) =>
                 /\ customerId' = "" /\ customerSearch' = <<>>
                 /\ form'.productName = "" /\ form'.insertPrice = <<>>
                 /\ form'.startDate = NoDate /\ form'.endDate = NoDate
                 /\ form'.photoFiles = 0
          /\ (SaveFailsAt(u, "upload") \/ SaveFailsAt(u, "insert")) =>
                 FormFields' = FormFields]_vars

\* A save with photos failed at the insert, the next one succeeded.
C32_Witness ==
    /\ view = "ProductInsert" /\ mounted /\ saves = {}
    /\ saveLog.failedAt = "insert"
    /\ Len(saveLog.inserted) = 1 /\ saveLog.inserted[1].photos = 2
    /\ customerId = "" /\ customerSearch = <<>> /\ form = EmptyForm
    /\ notifications[Len(notifications)] = "productInsert.saveSuccess"

\* C33: a mounted ProductInsert has at most one save in flight, and isSaving is
\* true for as long as it is: the button is disabled then, so no second
\* handleSave starts before the first has ended. Every save started has ended
\* with one inserted row, has ended with an error, or is the one in flight, so
\* no click inserts its form twice.
C33_OneSaveInFlight ==
    /\ Cardinality(saves) <= 1
    /\ (mounted /\ saves # {}) => (isSaving /\ SaveDisabled)
    /\ saveLog.nextId - 1 =
          Len(saveLog.inserted) + saveLog.failures + Cardinality(saves)

\* A save is in flight, the form in the inputs is valid, and the user would
\* click again if the button let them.
C33_Witness ==
    /\ PiUsable /\ MaySave /\ SaveButtonShown
    /\ Cardinality(saves) = 1 /\ isSaving
    /\ ~FieldsMissing(customerId, form) /\ ~DateError(form)

\* ------------------------------------------------------------------ properties: overlap

\* The rows of product_inserts of the customers ids (all customers if ids is
\* empty) whose interval overlaps [from, to].
Overlapping(from, to, ids) ==
    {r \in InsertRows : /\ r.end_date >= from
                        /\ r.start_date <= to
                        /\ ids = {} \/ r.customer_id \in ids}

\* C34: a load of ProductInsertReporting whose facets have both dates counts
\* exactly the rows whose end_date is on or after the start date and whose
\* start_date is on or before the end date (within the customers selected, if
\* any), and shows the requested page of exactly these rows: only such rows, each
\* once, and all of them when they fit the first page.
C34_BothDatesOverlap ==
    [][\A l \in pirLoads :
          (l.startDate # NoDate /\ l.endDate # NoDate /\ PirAnswers(l)) =>
             LET expected == Overlapping(l.startDate, l.endDate, l.selectedCustomerIds)
                 shown    == {pir'.inserts[k] : k \in 1..Len(pir'.inserts)}
                 before   == (l.currentPage - 1) * PirItemsPerPage
             IN  /\ pir'.totalCount = Cardinality(expected)
                 /\ shown \subseteq {r.id : r \in expected}
                 /\ Cardinality(shown) = Len(pir'.inserts)
                 /\ Len(pir'.inserts) =
                       Min(PirItemsPerPage, Max(0, Cardinality(expected) - before))]_vars

\* Both dates are set to day 2; the rows that start on day 1 and end on day 2 or
\* later overlap the range and are shown, the rows that end on day 1 are not.
C34_Witness ==
    /\ view = "ProductInsertReporting"
    /\ pir.startDate = 2 /\ pir.endDate = 2 /\ pir.selectedCustomerIds = {}
    /\ pirLoads = {} /\ pirLog.lastOk /\ pir.currentPage = 1
    /\ pirLog.countFacets = PirFacets(pir)
    /\ pir.totalCount = Cardinality(Overlapping(2, 2, {}))
    /\ \E k \in 1..Len(pir.inserts) : InsertRow(pir.inserts[k]).start_date < 2
    /\ pir.totalCount < NumInserts

\* ------------------------------------------------------------------ specification

Views == {"ProductInsert", "ProductInsertReporting", "CompetitorPriceAnalysisReport"}

InitComponents ==
    /\ mounted = FALSE
    /\ tornDown = FALSE
    /\ notifications = <<>>
    /\ consoleErrors = 0
    /\ customerId = ""
    /\ customerSearch = <<>>
    /\ filteredCustomers = {}
    /\ isCustomerDropdownOpen = FALSE
    /\ debounceTimeout = 0
    /\ timers = {}
    /\ searches = {}
    /\ searchLog = SearchLogInit
    /\ form = EmptyForm
    /\ isSaving = FALSE
    /\ saves = {}
    /\ saveLog = SaveLogInit
    /\ pir = PirInit
    /\ pirLoads = {}
    /\ pirInitial = FALSE
    /\ pirLog = LoadLogInit(PirFacets(PirInit))
    /\ cpa = CpaInit
    /\ cpaLoads = {}
    /\ cpaDropdown = FALSE
    /\ cpaLog = LoadLogInit(InitialFilters)

NextProductInsertReporting ==
    \/ MountProductInsertReporting
    \/ FetchInitialDataReturns
    \/ FetchInitialDataFails
    \/ \E d \in DateInputs \cup {NoDate} : PirSetStartDate(d)
    \/ \E d \in DateInputs \cup {NoDate} : PirSetEndDate(d)
    \/ \E id \in Customers : HandleCustomerToggle(id)
    \/ PirHandleResetFilters
    \/ PirPrevPage
    \/ PirNextPage
    \/ \E l \in pirLoads : FetchInsertsReturns(l)
    \/ \E l \in pirLoads : FetchInsertsFails(l)

\* The permissions of the page: can_create is read by ProductInsert only, whose
\* save button is rendered in the behaviours that may click it.
PagePermissions(b) == [can_view : BOOLEAN, can_create : {b.saves > 0}]

\* A behaviour of ProductInsert either searches up to MaxTimers times and saves
\* nothing, or searches up to MaxSaveTimers times and clicks save up to MaxSaves
\* times.
Budgets(v) ==
    IF v = "ProductInsert"
    THEN {[timers |-> MaxTimers, saves |-> 0], [timers |-> MaxSaveTimers, saves |-> MaxSaves]}
    ELSE {[timers |-> MaxTimers, saves |-> 0]}

Init ==
    /\ view \in Views
    /\ loadBudget = MaxLoads
    /\ \E b \in Budgets(view) :
          /\ timerBudget = b.timers
          /\ saveBudget = b.saves
          /\ pagePermissions \in PagePermissions(b)
    /\ InitComponents

\* The insert report alone, with more loads.
InitNavigation ==
    /\ view = "ProductInsertReporting"
    /\ pagePermissions = [can_view |-> TRUE, can_create |-> FALSE]
    /\ loadBudget = MaxNavigationLoads
    /\ timerBudget = MaxTimers
    /\ saveBudget = 0
    /\ InitComponents

Next ==
    \/ MountProductInsert
    \/ \E v \in TypedTexts : OnSearchChange(v)
    \/ OnSearchFocus
    \/ \E c \in Customers : HandleSelectCustomer(c)
    \/ \E t \in timers : TimerFires(t)
    \/ \E r \in searches : \E d \in SearchResults(r.q) : SearchReturns(r, d)
    \/ \E r \in searches : SearchFails(r)
    \/ UnmountProductInsert
    \/ \E v \in ProductNames : SetProductName(v)
    \/ \E v \in Prices : SetInsertPrice(v)
    \/ \E d \in FormStartDates : SetStartDate(d)
    \/ \E d \in FormEndDates : SetEndDate(d)
    \/ \E n \in PhotoCounts : SetPhotoFiles(n)
    \/ HandleSave
    \/ \E u \in saves : UploadReturns(u)
    \/ \E u \in saves : UploadFails(u)
    \/ \E u \in saves : InsertReturns(u)
    \/ \E u \in saves : InsertFails(u)
    \/ NextProductInsertReporting
    \/ MountCompetitorPriceAnalysisReport
    \/ \E customersOk, productsOk \in BOOLEAN :
           FetchDropdownDataReturns(customersOk, productsOk)
    \/ \E d \in CpaDateInputs \cup {NoDate} : CpaSetStartDate(d)
    \/ \E d \in CpaDateInputs \cup {NoDate} : CpaSetEndDate(d)
    \/ \E id \in Customers \cup {""} : CpaSetCustomer(id)
    \/ \E productId \in Products \cup {""} : CpaSelectProduct(productId)
    \/ \E productId \in Products : CpaRemoveProductChip(productId)
    \/ CpaHandleResetFilters
    \/ CpaPrevPage
    \/ CpaNextPage
    \/ \E l \in cpaLoads : ItemLookupReturns(l)
    \/ \E l \in cpaLoads : ItemLookupFails(l)
    \/ \E l \in cpaLoads : AnalysisIdsReturns(l)
    \/ \E l \in cpaLoads : AnalysisIdsFails(l)
    \/ \E l \in cpaLoads : DetailReturns(l)
    \/ \E l \in cpaLoads : DetailFails(l)

Spec == Init /\ [][Next]_vars

\* ProductInsert alone, the user typing pattern characters.
InitPattern ==
    /\ view = "ProductInsert"
    /\ pagePermissions = [can_view |-> TRUE, can_create |-> FALSE]
    /\ loadBudget = MaxLoads
    /\ timerBudget = MaxTimers
    /\ saveBudget = 0
    /\ InitComponents

NextPattern ==
    \/ MountProductInsert
    \/ \E v \in PatternTexts : OnSearchChange(v)
    \/ OnSearchFocus
    \/ \E c \in Customers : HandleSelectCustomer(c)
    \/ \E t \in timers : TimerFires(t)
    \/ \E r \in searches : \E d \in SearchResults(r.q) : SearchReturns(r, d)
    \/ \E r \in searches : SearchFails(r)
    \/ UnmountProductInsert

SpecPattern == InitPattern /\ [][NextPattern]_vars

\* ProductInsert alone: the user may edit the input again after choosing a
\* customer, and saves once.
InitSaveEdited ==
    /\ view = "ProductInsert"
    /\ pagePermissions = [can_view |-> TRUE, can_create |-> TRUE]
    /\ loadBudget = MaxLoads
    /\ timerBudget = MaxEditTimers
    /\ saveBudget = 1
    /\ InitComponents

NextSaveEdited ==
    \/ MountProductInsert
    \/ \E v \in TypedTexts : OnSearchChange(v)
    \/ OnSearchFocus
    \/ \E c \in Customers : HandleSelectCustomer(c)
    \/ \E t \in timers : TimerFires(t)
    \/ \E r \in searches : \E d \in SearchResults(r.q) : SearchReturns(r, d)
    \/ \E v \in ProductNames : SetProductName(v)
    \/ \E v \in Prices : SetInsertPrice(v)
    \/ \E d \in FormStartDates : SetStartDate(d)
    \/ \E d \in FormEndDates : SetEndDate(d)
    \/ \E n \in PhotoCounts : SetPhotoFiles(n)
    \/ HandleSave
    \/ \E u \in saves : UploadReturns(u)
    \/ \E u \in saves : UploadFails(u)
    \/ \E u \in saves : InsertReturns(u)
    \/ \E u \in saves : InsertFails(u)

SpecSaveEdited == InitSaveEdited /\ [][NextSaveEdited]_vars

SpecNavigation == InitNavigation /\ [][NextProductInsertReporting]_vars

====
